---- MODULE Spec2Model ----
(***************************************************************************)
(* Callback routing and session state machine of the poll -> sheet bot.    *)
(* Strings that the handlers slice or compare are sequences of one-        *)
(* character strings; an optional (possibly undefined) field is a sequence *)
(* of length 0 (undefined) or 1 (the value).                                *)
(***************************************************************************)
EXTENDS Integers, Sequences, FiniteSets, TLC

\* ---------------------------------------------------------------- bounds
MaxIndexDigit == 3
MaxExisting == 2

\* ------------------------------------------------------- string helpers
StartsWith(s, p) == Len(s) >= Len(p) /\ SubSeq(s, 1, Len(p)) = p

Slice(s, n) == SubSeq(s, n + 1, Len(s))

Undef == << >>

Some(x) == << x >>

\* JavaScript truthiness of an optional string: undefined and '' are falsy
FalsyStr(opt) == opt = Undef \/ opt[1] = << >>

\* -------------------------------------------------------------- prefixes
YES_NO == << "y", "n", ":" >>

COLUMN == << "c", "o", "l", ":" >>

POLL_INTENT == << "p", "i", ":" >>

POLL_OPTION == << "p", "o", ":" >>

\* ---------------------------------------------------- sub-action literals
PlayercountYes == << "p","l","a","y","e","r","c","o","u","n","t",":","y","e","s" >>

PlayercountNo == << "p","l","a","y","e","r","c","o","u","n","t",":","n","o" >>

OverrideYes == << "o","v","e","r","r","i","d","e",":","y","e","s" >>

OverrideNo == << "o","v","e","r","r","i","d","e",":","n","o" >>

UsePfx == << "u","s","e",":" >>

NewPfx == << "n","e","w",":" >>

CreatePfx == << "c","r","e","a","t","e",":" >>

SelectPfx == << "s","e","l","e","c","t",":" >>

CancelLit == << "c","a","n","c","e","l" >>

UpdateLit == << "u","p","d","a","t","e" >>

ViewLit == << "v","i","e","w" >>

\* ---------------------------------------------------------------- session
States == { "idle", "awaiting_column_choice", "awaiting_date_name",
            "awaiting_player_count", "awaiting_override_choice",
            "awaiting_poll_option_selection" }

InitSession ==
  [ state |-> "idle",
    targetColumn |-> Undef,
    column |-> Undef,
    isNewColumn |-> FALSE,
    columnMatches |-> Undef,
    playerCount |-> Undef,
    nicknameRowsEntries |-> Undef,
    existingValuesEntries |-> Undef,
    usernames |-> Undef,
    pollId |-> Undef,
    pollQuestion |-> Undef ]

resetSession(s) == InitSession

\* ---------------------------------------------------------------- effects
\* One record per call the handler makes on a collaborator, in call order.
Fx(op) ==
  [ op |-> op, tag |-> "", col |-> << >>, n |-> 0, names |-> << >>,
    rows |-> << >>, flag |-> FALSE, ok |-> TRUE, kb |-> << >> ]

Ack == Fx("ack")

Render(tag) == [ Fx("render") EXCEPT !.tag = tag ]

RenderN(tag, n) == [ Fx("render") EXCEPT !.tag = tag, !.n = n ]

RenderCol(tag, c) == [ Fx("render") EXCEPT !.tag = tag, !.col = c ]

\* the handler's own call of resetSession
Reset == Fx("resetSession")

Res(s, fx) == [ s |-> s, fx |-> fx, threw |-> FALSE ]

Threw(s, fx) == [ s |-> s, fx |-> fx, threw |-> TRUE ]

\* ---------------------------------------------------- poll data source
\* options: ordered option texts (index 0 = first); votes: option index ->
\* voters in collection order; an index outside DOMAIN votes has no votes.
PollIds == { 1 }

PollData(p) ==
  [ question |-> "Who plays?",
    options |-> << "Team A", "Team B", "Maybe" >>,
    votes |-> (0 :> << >> @@ 1 :> << "bob", "alice" >>) ]

VotersOfReversed(pollData, index) ==
  IF index \in DOMAIN pollData.votes
  THEN LET v == pollData.votes[index]
       IN [ i \in 1..Len(v) |-> v[Len(v) + 1 - i] ]
  ELSE << >>

\* votes.get(index) || new Set(), then Array.from
VotersOf(pollData, index) ==
  IF index \in DOMAIN pollData.votes THEN pollData.votes[index] ELSE << >>

\* ------------------------------------------------------ sheet collaborator
KnownNicknames == { "alice", "bob" }

RowOf(n) == IF n = "alice" THEN 2 ELSE 3

\* new Map(entries): keys unique, first insertion position, last value wins
RECURSIVE MapOf(_)
MapOf(entries) ==
  IF entries = << >> THEN << >>
  ELSE LET n == Len(entries)
           e == entries[n]
           m == MapOf(SubSeq(entries, 1, n - 1))
       IN IF \E i \in 1..Len(m) : m[i][1] = e[1]
          THEN [ i \in 1..Len(m) |-> IF m[i][1] = e[1] THEN e ELSE m[i] ]
          ELSE Append(m, e)

\* injective sequences over S of length at most k
InjSeqs(S, k) ==
  UNION { { q \in [1..n -> S] : \A i, j \in 1..n : i # j => q[i] # q[j] }
          : n \in 0..k }

\* ------------------------------------------------- helpers (bot-helpers)
replyErrorAndReset(s, tag) == Res(resetSession(s), << Render(tag) >>)

\* a collaborator failed: the operation is reported and the session is left
\* intact, with and without the optional fourth argument
handleApiError(s, operation) == Res(s, << Render(operation) >>)

\* fetch by the session's pollId; ok = FALSE when there is nothing to show
getPollDataOrError(s, fetchOk) ==
  IF s.pollId = Undef
  THEN [ ok |-> FALSE, pollData |-> PollData(1),
         fx |-> << Render("no_poll") >> ]
  ELSE IF ~fetchOk
  THEN [ ok |-> FALSE, pollData |-> PollData(1),
         fx |-> << [ Fx("fetchPollData") EXCEPT !.ok = FALSE ],
                   Render("poll_error") >> ]
  ELSE [ ok |-> TRUE, pollData |-> PollData(s.pollId[1]),
         fx |-> << Fx("fetchPollData") >> ]

\* --------------------------------------------------- workflow collaborators
\* commitAttendance(column, writeSet): the write set leaves out the skipped
\* nicknames; success completes the workflow and resets the session
writeZerosAndRespond(s, nicknameRows, col, overwrite, skipped, o) ==
  LET inSkipped(e) == \E i \in 1..Len(skipped) : skipped[i] = e[1]
      writeSet == SelectSeq(nicknameRows, LAMBDA e : ~inSkipped(e))
      commit == [ Fx("commitAttendance") EXCEPT !.col = col, !.rows = writeSet,
                  !.names = skipped, !.flag = overwrite, !.ok = o.commitOk ]
  IN IF o.commitOk
     THEN Res(resetSession(s),
              << commit, [ Render("done") EXCEPT !.names = skipped ] >>)
     ELSE Threw(s, << commit >>)

\* look for cells of the target column that already hold a value
checkOverridesAndWrite(s, nicknameRows, o) ==
  LET isRow(n) == \E i \in 1..Len(nicknameRows) : nicknameRows[i][1] = n
      found == SelectSeq(o.existing, isRow)
      ex == [ i \in 1..Len(found) |->
                [ nickname |-> found[i], existingValue |-> 1 ] ]
      chk == [ Fx("checkOverrides") EXCEPT !.ok = o.checkOk ]
  IN IF ~o.checkOk THEN Threw(s, << chk >>)
     ELSE IF ex = << >>
     THEN LET w == writeZerosAndRespond(s, nicknameRows, s.targetColumn[1],
                                        TRUE, << >>, o)
          IN [ w EXCEPT !.fx = << chk >> \o w.fx ]
     ELSE Res([ s EXCEPT !.existingValuesEntries = Some(ex),
                         !.state = "awaiting_override_choice" ],
              << chk, Render("override_prompt") >>)

\* ----------------------------------------------------------------- keyboards
DigitChars == << "0", "1", "2", "3", "4", "5", "6", "7", "8", "9" >>

\* `${index}` for a non-negative integer
RECURSIVE ToStr(_)
ToStr(n) ==
  IF n < 10 THEN << DigitChars[n + 1] >>
  ELSE ToStr(n \div 10) \o << DigitChars[(n % 10) + 1] >>

\* a button: its position number (0 when the label carries none) and its
\* callback data; labels' wording is presentation
Button(num, data) == [ num |-> num, data |-> data ]

yesNoKeyboard(yesData, noData) ==
  << Button(0, YES_NO \o yesData), Button(0, YES_NO \o noData) >>

columnConfirmationKeyboard(currentColumn, nextColumn) ==
  << Button(0, COLUMN \o UsePfx \o currentColumn),
     Button(0, COLUMN \o NewPfx \o nextColumn) >>

newColumnChoiceKeyboard(column) ==
  << Button(0, COLUMN \o CreatePfx \o column),
     Button(0, COLUMN \o CancelLit) >>

columnSelectionKeyboardWithCancel(matches) ==
  [ i \in 1..Len(matches) |->
      Button(i, COLUMN \o SelectPfx \o matches[i].column) ]
  \o << Button(0, COLUMN \o CancelLit) >>

columnSelectionKeyboard(matches) ==
  [ i \in 1..Len(matches) |->
      Button(i, COLUMN \o SelectPfx \o matches[i].column) ]

playerCountConfirmationKeyboard(recognizedCount) ==
  << Button(0, YES_NO \o PlayercountYes), Button(0, YES_NO \o PlayercountNo) >>

overrideConfirmationKeyboard ==
  << Button(0, YES_NO \o OverrideYes), Button(0, YES_NO \o OverrideNo) >>

pollIntentKeyboard ==
  << Button(0, POLL_INTENT \o UpdateLit), Button(0, POLL_INTENT \o ViewLit) >>

pollOptionKeyboard(options, votes) ==
  [ i \in 1..Len(options) |-> Button(i, POLL_OPTION \o ToStr(i - 1)) ]

RenderKb(tag, kb) == [ Fx("render") EXCEPT !.tag = tag, !.kb = kb ]

\* ------------------------------------------ workflow collaborators (cont.)
Match(c, d) == [ column |-> c, date |-> d ]

CandidateChoices ==
  { << >>, << Match(<< "A" >>, "d1") >>,
    << Match(<< "B" >>, "d1"), Match(<< "A" >>, "d1") >> }

\* detection supplies the candidates (o.cands) and the next free column
startColumnDetectionFlow(s, o) ==
  LET start == [ Fx("startColumnDetection") EXCEPT
                   !.names = IF s.usernames = Undef THEN << >>
                             ELSE s.usernames[1],
                   !.ok = o.detectOk ]
      n == Len(o.cands)
      kb == IF n = 0 THEN newColumnChoiceKeyboard(o.next)
            ELSE IF n = 1
            THEN columnConfirmationKeyboard(o.cands[1].column, o.next)
            ELSE columnSelectionKeyboard(o.cands)
  IN IF ~o.detectOk
     THEN LET h == handleApiError(s, "error: detecting column")
          IN Res(h.s, << start >> \o h.fx)
     ELSE Res([ s EXCEPT !.state = "awaiting_column_choice",
                         !.columnMatches = IF n > 1 THEN Some(o.cands)
                                           ELSE Undef ],
              << start, [ RenderKb("column_choice", kb) EXCEPT
                            !.rows = o.cands ] >>)

\* look the attendees up in the sheet; nicknameRowsEntries is set on success
proceedWithMetadataCollection(s, o) ==
  LET mc == [ Fx("metadataCollection") EXCEPT !.ok = o.collectOk ]
      known == SelectSeq(s.usernames[1], LAMBDA u : u \in KnownNicknames)
      entries == [ i \in 1..Len(known) |-> << known[i], RowOf(known[i]) >> ]
  IN IF s.usernames = Undef
     THEN LET r == replyErrorAndReset(s, "session_data_lost")
          IN [ r EXCEPT !.fx = << [ mc EXCEPT !.ok = FALSE ] >> \o r.fx ]
     ELSE IF ~o.collectOk
     THEN LET h == handleApiError(s, "error: collecting metadata")
          IN Res(h.s, << mc >> \o h.fx)
     ELSE Res([ s EXCEPT !.nicknameRowsEntries = Some(entries),
                         !.state = "awaiting_player_count" ],
              << mc, RenderKb("player_count_prompt",
                              playerCountConfirmationKeyboard(Len(entries))) >>)

\* ------------------------------------------------------ yn: handler parts
ERR_SESSION_DATA_LOST == "session data lost, start over"

PlayerCountDataLost(s) == replyErrorAndReset(s, ERR_SESSION_DATA_LOST)

handlePlayerCountYesGoesOn(s, o) ==
  IF FalsyStr(s.targetColumn) \/ s.nicknameRowsEntries = Undef
  THEN PlayerCountDataLost(s)
  ELSE LET nicknameRows == MapOf(s.nicknameRowsEntries[1])
           recognizedCount == Len(nicknameRows)
           s1 == [ s EXCEPT !.playerCount = Some(recognizedCount) ]
           shown == << RenderN("player count", recognizedCount) >>
           write == [ Fx("writeColumnMetadata") EXCEPT
                        !.col = s1.targetColumn[1],
                        !.n = s1.playerCount[1], !.ok = o.metaOk ]
           failed(t, fx) ==
             LET h == handleApiError(
                        t, "error: writing player count or checking overrides")
             IN Res(h.s, shown \o fx \o h.fx)
       IN IF ~o.clientOk THEN failed(s1, << >>)
          ELSE LET r == checkOverridesAndWrite(s1, nicknameRows, o)
               IN IF r.threw THEN failed(r.s, << write >> \o r.fx)
                  ELSE Res(r.s, shown \o << write >> \o r.fx)

handlePlayerCountYes(s, o) ==
  IF FalsyStr(s.targetColumn) \/ s.nicknameRowsEntries = Undef
  THEN PlayerCountDataLost(s)
  ELSE LET nicknameRows == MapOf(s.nicknameRowsEntries[1])
           recognizedCount == Len(nicknameRows)
           s1 == [ s EXCEPT !.playerCount = Some(recognizedCount) ]
           shown == << RenderN("player count", recognizedCount) >>
           write == [ Fx("writeColumnMetadata") EXCEPT
                        !.col = s1.targetColumn[1],
                        !.n = s1.playerCount[1], !.ok = o.metaOk ]
           failed(t, fx) ==
             LET h == handleApiError(
                        t, "error: writing player count or checking overrides")
             IN Res(h.s, shown \o fx \o h.fx)
       IN IF ~o.clientOk THEN failed(s1, << >>)
          ELSE IF ~o.metaOk THEN failed(s1, << write >>)
          ELSE LET r == checkOverridesAndWrite(s1, nicknameRows, o)
               IN IF r.threw THEN failed(r.s, << write >> \o r.fx)
                  ELSE Res(r.s, shown \o << write >> \o r.fx)

\* session.column || session.targetColumn
ColumnToUse(s) == IF ~FalsyStr(s.column) THEN s.column ELSE s.targetColumn

SkippedNicknamesFlipped(s, overwrite) ==
  IF overwrite /\ s.existingValuesEntries # Undef
  THEN [ i \in 1..Len(s.existingValuesEntries[1]) |->
           s.existingValuesEntries[1][i].nickname ]
  ELSE << >>

SkippedNicknames(s, overwrite) ==
  IF ~overwrite /\ s.existingValuesEntries # Undef
  THEN [ i \in 1..Len(s.existingValuesEntries[1]) |->
           s.existingValuesEntries[1][i].nickname ]
  ELSE << >>

OverrideDataLostKeepsSession(s) ==
  Res(s, << Render("session data lost, start over with /update") >>)

OverrideDataLost(s) ==
  replyErrorAndReset(s, "session data lost, start over with /update")

handleOverrideChoice(s, overwrite, o) ==
  LET columnToUse == ColumnToUse(s)
  IN IF FalsyStr(columnToUse) \/ s.nicknameRowsEntries = Undef
     THEN OverrideDataLost(s)
     ELSE LET nicknameRows == MapOf(s.nicknameRowsEntries[1])
              skippedNicknames == SkippedNicknames(s, overwrite)
              shown == << Render(IF overwrite THEN "will overwrite"
                                 ELSE "will skip") >>
              call == [ Fx("writeZerosAndRespond") EXCEPT
                          !.rows = nicknameRows, !.col = columnToUse[1],
                          !.flag = overwrite, !.names = skippedNicknames ]
              r == writeZerosAndRespond(s, nicknameRows, columnToUse[1],
                                        overwrite, skippedNicknames, o)
          IN IF r.threw
             THEN LET h == handleApiError(r.s, "error: updating sheet")
                  IN Res(h.s, shown \o << call >> \o r.fx \o h.fx)
             ELSE Res(r.s, shown \o << call >> \o r.fx)

PlayerCountNoClearsCount(s) ==
  Res([ s EXCEPT !.state = "awaiting_player_count", !.playerCount = Undef ],
      << Render("how many players") >>)

PlayerCountNo(s) ==
  Res([ s EXCEPT !.state = "awaiting_player_count" ],
      << Render("how many players") >>)

WithAckLast(r) == [ r EXCEPT !.fx = r.fx \o << Ack >> ]

WithAck(r) == [ r EXCEPT !.fx = << Ack >> \o r.fx ]

YesNoHandler(s, data, o) ==
  WithAck(IF data = PlayercountYes THEN handlePlayerCountYes(s, o)
          ELSE IF data = PlayercountNo THEN PlayerCountNo(s)
          ELSE IF data = OverrideYes THEN handleOverrideChoice(s, TRUE, o)
          ELSE IF data = OverrideNo THEN handleOverrideChoice(s, FALSE, o)
          ELSE Res(s, << >>))

\* ----------------------------------------------------- col: handler parts
ColUse(s, data, o) ==
  LET column == Slice(data, 4)
      s1 == [ s EXCEPT !.targetColumn = Some(column), !.isNewColumn = FALSE ]
      r == proceedWithMetadataCollection(s1, o)
  IN Res(r.s, << RenderCol("using column", column) >> \o r.fx)

ColNew(s, data) ==
  LET column == Slice(data, 4)
  IN Res([ s EXCEPT !.targetColumn = Some(column), !.isNewColumn = TRUE,
                    !.state = "awaiting_date_name" ],
         << RenderCol("date name please", column) >>)

ColCreate(s, data) ==
  LET column == Slice(data, 7)
  IN Res([ s EXCEPT !.targetColumn = Some(column), !.isNewColumn = TRUE,
                    !.state = "awaiting_date_name" ],
         << RenderCol("date name please", column) >>)

ColCancelKeepsSession(s) == Res(s, << Render("operation cancelled") >>)

ColCancel(s) ==
  Res(resetSession(s), << Reset, Render("operation cancelled") >>)

ColSelect(s, data, o) ==
  LET column == Slice(data, 7)
      s1 == [ s EXCEPT !.targetColumn = Some(column), !.isNewColumn = FALSE,
                       !.columnMatches = Undef ]
      r == proceedWithMetadataCollection(s1, o)
  IN Res(r.s, << RenderCol("selected column", column) >> \o r.fx)

ColumnHandlerLooseCancel(s, data, o) ==
  WithAck(IF StartsWith(data, UsePfx) THEN ColUse(s, data, o)
          ELSE IF StartsWith(data, NewPfx) THEN ColNew(s, data)
          ELSE IF StartsWith(data, CreatePfx) THEN ColCreate(s, data)
          ELSE IF StartsWith(data, CancelLit) THEN ColCancel(s)
          ELSE IF StartsWith(data, SelectPfx) THEN ColSelect(s, data, o)
          ELSE Res(s, << >>))

ColumnHandler(s, data, o) ==
  WithAck(IF StartsWith(data, UsePfx) THEN ColUse(s, data, o)
          ELSE IF StartsWith(data, NewPfx) THEN ColNew(s, data)
          ELSE IF StartsWith(data, CreatePfx) THEN ColCreate(s, data)
          ELSE IF data = CancelLit THEN ColCancel(s)
          ELSE IF StartsWith(data, SelectPfx) THEN ColSelect(s, data, o)
          ELSE Res(s, << >>))

\* ------------------------------------------------------ pi: handler parts
PiUpdateSetsStateFirst(s, o) ==
  LET s1 == [ s EXCEPT !.state = "awaiting_poll_option_selection" ]
      result == getPollDataOrError(s1, o.fetchOk)
      pollData == result.pollData
  IN IF ~result.ok THEN Res(s1, result.fx)
     ELSE Res(s1,
              result.fx \o
              << RenderKb("which option",
                          pollOptionKeyboard(pollData.options,
                                             pollData.votes)) >>)

PiUpdate(s, o) ==
  LET result == getPollDataOrError(s, o.fetchOk)
      pollData == result.pollData
  IN IF ~result.ok THEN Res(s, result.fx)
     ELSE Res([ s EXCEPT !.state = "awaiting_poll_option_selection" ],
              result.fx \o
              << RenderKb("which option",
                          pollOptionKeyboard(pollData.options,
                                             pollData.votes)) >>)

PiViewResetsFirst(s, o) ==
  LET result == getPollDataOrError(s, o.fetchOk)
      pollData == result.pollData
      lines == [ i \in 1..Len(pollData.options) |->
                   VotersOf(pollData, i - 1) ]
  IN IF ~result.ok THEN Res(s, result.fx)
     ELSE Res(resetSession(s),
              result.fx \o
              << Reset, [ Render("poll view") EXCEPT !.rows = lines ] >>)

PiView(s, o) ==
  LET result == getPollDataOrError(s, o.fetchOk)
      pollData == result.pollData
      lines == [ i \in 1..Len(pollData.options) |->
                   VotersOf(pollData, i - 1) ]
  IN IF ~result.ok THEN Res(s, result.fx)
     ELSE Res(resetSession(s),
              result.fx \o
              << [ Render("poll view") EXCEPT !.rows = lines ], Reset >>)

PollIntentHandler(s, data, o) ==
  WithAck(IF data = UpdateLit THEN PiUpdate(s, o)
          ELSE IF data = ViewLit THEN PiView(s, o)
          ELSE Res(s, << >>))

\* ------------------------------------------------------ po: handler parts
IsDigit(c) == \E i \in 1..10 : DigitChars[i] = c

DigitVal(c) == (CHOOSE i \in 1..10 : DigitChars[i] = c) - 1

RECURSIVE SkipSpaces(_)
SkipSpaces(str) ==
  IF str # << >> /\ str[1] = " " THEN SkipSpaces(Tail(str)) ELSE str

RECURSIVE DigitPrefix(_)
DigitPrefix(str) ==
  IF str # << >> /\ IsDigit(str[1])
  THEN << str[1] >> \o DigitPrefix(Tail(str))
  ELSE << >>

RECURSIVE DecimalValue(_)
DecimalValue(ds) ==
  IF ds = << >> THEN 0
  ELSE 10 * DecimalValue(SubSeq(ds, 1, Len(ds) - 1)) + DigitVal(ds[Len(ds)])

\* parseInt(data, 10): leading whitespace, an optional sign, then the longest
\* run of digits; NaN when that run is empty
parseInt(data) ==
  LET t == SkipSpaces(data)
      signed == t # << >> /\ t[1] \in { "-", "+" }
      neg == t # << >> /\ t[1] = "-"
      ds == DigitPrefix(IF signed THEN Tail(t) ELSE t)
  IN [ nan |-> ds = << >>,
       val |-> IF neg THEN 0 - DecimalValue(ds) ELSE DecimalValue(ds) ]

OutOfRangeOffByOne(optionIndex, pollData) ==
  optionIndex < 0 \/ optionIndex > Len(pollData.options)

OutOfRange(optionIndex, pollData) ==
  optionIndex < 0 \/ optionIndex >= Len(pollData.options)

PoNoVotersKeepsSession(s) == Res(s, << Render("no voters for this option") >>)

PoNoVoters(s) == replyErrorAndReset(s, "no voters for this option")

\* store the usernames, forget the poll, start the main workflow
PoSelected(s, pollData, optionIndex, usernames, o) ==
  LET s1 == [ s EXCEPT !.usernames = Some(usernames), !.pollId = Undef,
                       !.pollQuestion = Undef ]
      r == startColumnDetectionFlow(s1, o)
  IN Res(r.s, << [ Render("selected option") EXCEPT
                     !.n = optionIndex, !.names = usernames ] >> \o r.fx)

PollOptionHandler(s, data, o) ==
  LET optionIndex == parseInt(data)
      result == getPollDataOrError(s, o.fetchOk)
      pollData == result.pollData
      usernames == VotersOf(pollData, optionIndex.val)
      after(r) == Res(r.s, result.fx \o r.fx)
  IN WithAck(
       IF optionIndex.nan THEN Res(s, << Render("invalid option") >>)
       ELSE IF ~result.ok THEN Res(s, result.fx)
       ELSE IF OutOfRange(optionIndex.val, pollData)
       THEN Res(s, result.fx \o
                   << RenderN("invalid option number, choose between 1 and",
                              Len(pollData.options)) >>)
       ELSE IF Len(usernames) = 0 THEN after(PoNoVoters(s))
       ELSE after(PoSelected(s, pollData, optionIndex.val, usernames, o)))

\* ------------------------------------------------------------ the inputs
YnPayloads ==
  { PlayercountYes, PlayercountNo, OverrideYes, OverrideNo,
    OverrideYes \o << "s" >>, COLUMN \o CancelLit }

ColPayloads ==
  { UsePfx \o << "A" >>, UsePfx, NewPfx \o << "A" >>, CreatePfx \o << "A" >>,
    SelectPfx \o << "A" >>, CancelLit, CancelLit \o << "x" >>,
    YES_NO \o PlayercountNo }

PiPayloads ==
  { UpdateLit, ViewLit, UpdateLit \o << "s" >>, POLL_OPTION \o << "1" >> }

PoPayloads ==
  { ToStr(i) : i \in 0..MaxIndexDigit } \cup
  { << >>, << "a", "b", "c" >>, << "1", "a", "b", "c" >>, << "-", "1" >>,
    << "1", ".", "5" >>, POLL_INTENT \o ViewLit }

Tokens ==
  { YES_NO \o d : d \in YnPayloads } \cup { COLUMN \o d : d \in ColPayloads } \cup
  { POLL_INTENT \o d : d \in PiPayloads } \cup
  { POLL_OPTION \o d : d \in PoPayloads }

\* What the collaborators do during one handler run.  Only the outcomes a
\* run can tell apart are drawn: one failure at a time and the conflict lists.
AllFine ==
  [ clientOk |-> TRUE, metaOk |-> TRUE, checkOk |-> TRUE, commitOk |-> TRUE,
    collectOk |-> TRUE, fetchOk |-> TRUE, detectOk |-> TRUE,
    existing |-> << >>, cands |-> << >>, next |-> << "A" >> ]

CommitFailures == { [ AllFine EXCEPT !.commitOk = FALSE ] }

YnOutcomes(data) ==
  IF data = PlayercountYes
  THEN { AllFine, [ AllFine EXCEPT !.clientOk = FALSE ],
         [ AllFine EXCEPT !.metaOk = FALSE ],
         [ AllFine EXCEPT !.checkOk = FALSE ] }
       \cup CommitFailures
       \cup { [ AllFine EXCEPT !.existing = e ] :
                e \in InjSeqs(KnownNicknames, MaxExisting) }
  ELSE IF data \in { OverrideYes, OverrideNo }
  THEN { AllFine } \cup CommitFailures
  ELSE { AllFine }

ColOutcomes(data) ==
  IF StartsWith(data, UsePfx) \/ StartsWith(data, SelectPfx)
  THEN { AllFine, [ AllFine EXCEPT !.collectOk = FALSE ] }
  ELSE { AllFine }

PiOutcomes(data) ==
  IF data \in { UpdateLit, ViewLit }
  THEN { AllFine, [ AllFine EXCEPT !.fetchOk = FALSE ] }
  ELSE { AllFine }

PoOutcomes(data) ==
  IF DigitPrefix(data) = << >> /\ (data = << >> \/ data[1] # "-")
  THEN { AllFine }
  ELSE { [ AllFine EXCEPT !.fetchOk = FALSE ],
         [ AllFine EXCEPT !.detectOk = FALSE ] } \cup
       { [ AllFine EXCEPT !.cands = c,
                          !.next = IF c = << >> THEN << "A" >>
                                   ELSE << "B" >> ] :
           c \in CandidateChoices }

\* ------------------------------------------------------------- the machine
\* session: the chat's session record; token: the callback data handled last
\* (NoToken after a poll arrived); effects: the collaborator calls of that
\* run, in order; prev: the session as that run found it; routed: the prefix
\* of the handler that took the token and the data it sliced off
VARIABLES session, token, effects, prev, routed

vars == << session, token, effects, prev, routed >>

NoToken == << >>

\* bot.callbackQuery(new RegExp(`^${prefix}`), ...): the handlers are tried
\* in registration order and the first whose pattern matches takes the query
RECURSIVE Contains(_, _)
Contains(str, sub) ==
  IF Len(str) < Len(sub) THEN FALSE
  ELSE StartsWith(str, sub) \/ Contains(Tail(str), sub)

RouteUnanchored(tok) ==
  IF Contains(tok, YES_NO) THEN YES_NO
  ELSE IF Contains(tok, COLUMN) THEN COLUMN
  ELSE IF Contains(tok, POLL_INTENT) THEN POLL_INTENT
  ELSE IF Contains(tok, POLL_OPTION) THEN POLL_OPTION
  ELSE << >>

Route(tok) ==
  IF StartsWith(tok, YES_NO) THEN YES_NO
  ELSE IF StartsWith(tok, COLUMN) THEN COLUMN
  ELSE IF StartsWith(tok, POLL_INTENT) THEN POLL_INTENT
  ELSE IF StartsWith(tok, POLL_OPTION) THEN POLL_OPTION
  ELSE << >>

Data(tok) == Slice(tok, Len(Route(tok)))

NotRouted == [ prefix |-> << >>, data |-> << >> ]

Handled(prefix, tok, r) ==
  /\ routed' = [ prefix |-> prefix, data |-> Data(tok) ]
  /\ session' = r.s
  /\ effects' = r.fx
  /\ token' = tok
  /\ prev' = session

Init ==
  /\ session = InitSession
  /\ token = NoToken
  /\ effects = << >>
  /\ prev = InitSession
  /\ routed = NotRouted

\* a poll reaches the chat: its identity is kept and the intent is asked
ReceivePoll ==
  \E p \in PollIds :
    /\ session' = [ session EXCEPT !.pollId = Some(p),
                                   !.pollQuestion = Some(PollData(p).question) ]
    /\ effects' = << RenderKb("poll intent", pollIntentKeyboard) >>
    /\ token' = NoToken
    /\ prev' = session
    /\ routed' = NotRouted

YesNoCallback ==
  \E tok \in Tokens :
    /\ Route(tok) = YES_NO
    /\ \E o \in YnOutcomes(Data(tok)) :
         Handled(YES_NO, tok, YesNoHandler(session, Data(tok), o))

ColumnCallback ==
  \E tok \in Tokens :
    /\ Route(tok) = COLUMN
    /\ \E o \in ColOutcomes(Data(tok)) :
         Handled(COLUMN, tok, ColumnHandler(session, Data(tok), o))

PollIntentCallback ==
  \E tok \in Tokens :
    /\ Route(tok) = POLL_INTENT
    /\ \E o \in PiOutcomes(Data(tok)) :
         Handled(POLL_INTENT, tok, PollIntentHandler(session, Data(tok), o))

PollOptionCallback ==
  \E tok \in Tokens :
    /\ Route(tok) = POLL_OPTION
    /\ \E o \in PoOutcomes(Data(tok)) :
         Handled(POLL_OPTION, tok, PollOptionHandler(session, Data(tok), o))

Next ==
  \/ ReceivePoll
  \/ YesNoCallback
  \/ ColumnCallback
  \/ PollIntentCallback
  \/ PollOptionCallback

Spec == Init /\ [][Next]_vars

\* ------------------------------------------------------- reading the log
IsWrite(e) == e.op \in { "writeColumnMetadata", "commitAttendance" }

Writes(fx) == SelectSeq(fx, IsWrite)

Calls(fx, op) == SelectSeq(fx, LAMBDA e : e.op = op)

Pressed(prefix, payload) == token = prefix \o payload

FetchedPoll == \E i \in 1..Len(effects) :
                 effects[i].op = "fetchPollData" /\ effects[i].ok

\* the sub-actions of the wire format
Recognized(prefix, data) ==
  IF prefix = YES_NO
  THEN data \in { PlayercountYes, PlayercountNo, OverrideYes, OverrideNo }
  ELSE IF prefix = COLUMN
  THEN \/ data = CancelLit
       \/ \E pf \in { UsePfx, NewPfx, CreatePfx, SelectPfx } :
            StartsWith(data, pf)
  ELSE IF prefix = POLL_INTENT THEN data \in { UpdateLit, ViewLit }
  ELSE TRUE

\* a base-10 integer without sign: one digit or more and nothing else
IsUnsignedDecimal(data) ==
  data # << >> /\ \A i \in 1..Len(data) : IsDigit(data[i])

\* ------------------------------------------------------------------ C1
\* C1: handling the same token again right after its first handling went
\* through makes no second state transition and issues no second external
\* write.
NoSecondHandling ==
  [][ (token' = token /\ token # NoToken
       /\ \A i \in 1..Len(effects) : effects[i].ok) =>
        /\ (prev.state # session.state => session'.state = session.state)
        /\ ((\E i \in 1..Len(effects) : IsWrite(effects[i]) /\ effects[i].ok)
              => Writes(effects') = << >>) ]_vars

\* ------------------------------------------------------------------ C2
\* C2: the state becomes awaiting_date_name only from awaiting_column_choice
\* (on col:new / col:create) and becomes awaiting_poll_option_selection only
\* from idle (on pi:update).
LegalTransitionsOnly ==
  /\ (session.state = "awaiting_date_name" /\ prev.state # "awaiting_date_name")
       => /\ prev.state = "awaiting_column_choice"
          /\ Route(token) = COLUMN
          /\ (StartsWith(Data(token), NewPfx)
              \/ StartsWith(Data(token), CreatePfx))
  /\ (session.state = "awaiting_poll_option_selection"
      /\ prev.state # "awaiting_poll_option_selection")
       => /\ prev.state = "idle"
          /\ Pressed(POLL_INTENT, UpdateLit)

\* ------------------------------------------------------------------ C3
\* C3: col:cancel resets the whole session, whatever it held, and writes
\* nothing to the sheet.
CancelResets ==
  Pressed(COLUMN, CancelLit) =>
    /\ session = InitSession
    /\ Writes(effects) = << >>

CancelResetsWitness ==
  /\ Pressed(COLUMN, CancelLit)
  /\ prev.state = "awaiting_override_choice"
  /\ prev.targetColumn # Undef
  /\ prev.nicknameRowsEntries # Undef
  /\ prev.existingValuesEntries # Undef
  /\ prev.usernames # Undef
  /\ session = InitSession

\* ------------------------------------------------------------------ C4
\* C4: a yn:, col: or pi: token whose remainder is no sub-action of its
\* prefix changes no session field and causes nothing but the
\* acknowledgement: no write, no fetch, no message.
UnrecognizedIsNoOp ==
  (token # NoToken /\ Route(token) \in { YES_NO, COLUMN, POLL_INTENT }
   /\ ~Recognized(Route(token), Data(token)))
    => /\ session = prev
       /\ effects = << Ack >>

UnrecognizedIsNoOpWitness ==
  /\ Pressed(COLUMN, CancelLit \o << "x" >>)
  /\ prev.state = "awaiting_column_choice"
  /\ prev.usernames # Undef
  /\ session = prev
  /\ effects = << Ack >>

\* ------------------------------------------------------------------ C5
RestartMessages ==
  { ERR_SESSION_DATA_LOST, "session data lost, start over with /update" }

LacksWriteData(s, tok) ==
  \/ s.nicknameRowsEntries = Undef
  \/ IF tok = YES_NO \o PlayercountYes THEN FalsyStr(s.targetColumn)
     ELSE FalsyStr(s.column) /\ FalsyStr(s.targetColumn)

\* C5: yn:override:yes, yn:override:no or yn:playercount:yes on a session
\* without its column or without nicknameRowsEntries writes nothing, tells
\* the user to restart and resets the session; and no commit is issued by a
\* run that found either of them missing.
DataLostResets ==
  /\ (token \in { YES_NO \o PlayercountYes, YES_NO \o OverrideYes,
                  YES_NO \o OverrideNo } /\ LacksWriteData(prev, token))
       => /\ Writes(effects) = << >>
          /\ Len(effects) = 2
          /\ effects[1] = Ack
          /\ effects[2].op = "render" /\ effects[2].tag \in RestartMessages
          /\ session = InitSession
  /\ Calls(effects, "commitAttendance") # << >>
       => /\ prev.nicknameRowsEntries # Undef
          /\ ~(FalsyStr(prev.column) /\ FalsyStr(prev.targetColumn))

DataLostResetsWitness ==
  /\ Pressed(YES_NO, OverrideNo)
  /\ prev.state = "awaiting_date_name"
  /\ prev.targetColumn = Some(<< "A" >>)
  /\ prev.nicknameRowsEntries = Undef
  /\ prev.usernames # Undef
  /\ session = InitSession
  /\ Len(effects) = 2

\* ------------------------------------------------------------------ C6
NicknamesOf(entries) == [ i \in 1..Len(entries) |-> entries[i].nickname ]

\* C6: an override decision on a session with column and nickname rows hands
\* the write step the full nickname-row mapping, the chosen column and the
\* skipped list: empty for overwrite, and for skip exactly the nicknames of
\* existingValuesEntries in their recorded order (empty when absent).
SkippedListExact ==
  \A overwrite \in BOOLEAN :
    (Pressed(YES_NO, IF overwrite THEN OverrideYes ELSE OverrideNo)
     /\ ~LacksWriteData(prev, token))
      => LET calls == Calls(effects, "writeZerosAndRespond")
         IN /\ Len(calls) = 1
            /\ calls[1].flag = overwrite
            /\ calls[1].rows = MapOf(prev.nicknameRowsEntries[1])
            /\ calls[1].col = IF FalsyStr(prev.column) THEN prev.targetColumn[1]
                               ELSE prev.column[1]
            /\ calls[1].names =
                 IF overwrite \/ prev.existingValuesEntries = Undef THEN << >>
                 ELSE NicknamesOf(prev.existingValuesEntries[1])

SkippedListExactWitness ==
  /\ Pressed(YES_NO, OverrideNo)
  /\ prev.state = "awaiting_override_choice"
  /\ prev.existingValuesEntries # Undef
  /\ NicknamesOf(prev.existingValuesEntries[1]) = << "alice", "bob" >>
  /\ Len(MapOf(prev.nicknameRowsEntries[1])) = 2
  /\ \E i \in 1..Len(effects) :
       /\ effects[i].op = "writeZerosAndRespond"
       /\ effects[i].names = << "alice", "bob" >>

\* ------------------------------------------------------------------ C7
FetchedData == PollData(prev.pollId[1])

HasVoters(i) ==
  /\ i < Len(FetchedData.options)
  /\ i \in DOMAIN FetchedData.votes
  /\ FetchedData.votes[i] # << >>

\* C7: po:<i> for an option in range that has voters makes usernames exactly
\* that option's voters in collection order, clears pollId and pollQuestion,
\* and then starts column detection once; column detection is never started
\* with an empty attendee list.
PollOptionSelects ==
  /\ \A i \in 0..MaxIndexDigit :
       (Pressed(POLL_OPTION, ToStr(i)) /\ FetchedPoll /\ HasVoters(i))
         => LET starts == Calls(effects, "startColumnDetection")
            IN /\ Len(starts) = 1
               /\ starts[1].names = FetchedData.votes[i]
               /\ effects[Len(effects) - 1].op = "startColumnDetection"
               /\ session.usernames = Some(FetchedData.votes[i])
               /\ session.pollId = Undef
               /\ session.pollQuestion = Undef
  /\ \A k \in 1..Len(effects) :
       effects[k].op = "startColumnDetection" => effects[k].names # << >>

PollOptionSelectsWitness ==
  /\ Pressed(POLL_OPTION, << "1" >>)
  /\ prev.state = "awaiting_poll_option_selection"
  /\ prev.pollId = Some(1)
  /\ session.usernames = Some(<< "bob", "alice" >>)
  /\ session.state = "awaiting_column_choice"
  /\ Len(Calls(effects, "startColumnDetection")) = 1

\* ------------------------------------------------------------------ C8
\* C8: po:<i> whose parsed index is outside [0, options.length) is rejected
\* with the message naming 1..options.length; no session field changes and
\* column detection is not started.
OutOfRangeRejected ==
  (Route(token) = POLL_OPTION /\ FetchedPoll /\ ~parseInt(Data(token)).nan
   /\ (parseInt(Data(token)).val < 0
       \/ parseInt(Data(token)).val >= Len(FetchedData.options)))
    => /\ session = prev
       /\ effects = << Ack, Fx("fetchPollData"),
                       RenderN("invalid option number, choose between 1 and",
                               Len(FetchedData.options)) >>

OutOfRangeRejectedWitness ==
  /\ Pressed(POLL_OPTION, << "3" >>)
  /\ FetchedPoll
  /\ prev.state = "awaiting_poll_option_selection"
  /\ session = prev
  /\ effects[Len(effects)].n = 3

\* ------------------------------------------------------------------ C9
\* C9: po:<i> for an option in range without voters (index absent from votes
\* or mapped to the empty set) is rejected: the session is reset to idle,
\* usernames is not set and column detection is not started.
ZeroVotersResets ==
  \A i \in 0..MaxIndexDigit :
    (Pressed(POLL_OPTION, ToStr(i)) /\ FetchedPoll
     /\ i < Len(FetchedData.options) /\ ~HasVoters(i))
      => /\ session = InitSession
         /\ effects = << Ack, Fx("fetchPollData"),
                         Render("no voters for this option") >>

ZeroVotersResetsWitness ==
  /\ Pressed(POLL_OPTION, << "2" >>)
  /\ FetchedPoll
  /\ 2 \notin DOMAIN FetchedData.votes
  /\ prev.state = "awaiting_poll_option_selection"
  /\ prev.targetColumn # Undef
  /\ session = InitSession

\* ----------------------------------------------------------------- C10
\* C10: a po: payload that is not a base-10 unsigned integer is rejected as
\* an invalid option: no session change, no poll fetch, no column detection.
NonIntegerPayloadRejected ==
  (Route(token) = POLL_OPTION /\ ~IsUnsignedDecimal(Data(token)))
    => /\ session = prev
       /\ effects = << Ack, Render("invalid option") >>

\* ----------------------------------------------------------------- C11
ChoicePrefixes == { UsePfx, NewPfx, CreatePfx, SelectPfx }

ColumnChosenBy(pf) == Route(token) = COLUMN /\ StartsWith(Data(token), pf)

\* C11: after col:<kind>:<c> targetColumn is c; isNewColumn is true for new
\* and create, false for use and select; new and create set the state to
\* awaiting_date_name without metadata collection; use and select invoke
\* metadata collection exactly once, and select:<c> leaves the session as
\* use:<c> does.
ColumnChoiceOutcome ==
  \A pf \in ChoicePrefixes :
    ColumnChosenBy(pf) =>
      LET c == Slice(Data(token), Len(pf))
          mc == Calls(effects, "metadataCollection")
          same == [ collectOk |-> mc[1].ok ]
      IN IF pf \in { NewPfx, CreatePfx }
         THEN /\ session.targetColumn = Some(c)
              /\ session.isNewColumn
              /\ session.state = "awaiting_date_name"
              /\ mc = << >>
         ELSE /\ Len(mc) = 1
              /\ prev.usernames # Undef
                   => /\ session.targetColumn = Some(c)
                      /\ ~session.isNewColumn
              /\ session = IF pf = UsePfx
                           THEN ColSelect(prev, SelectPfx \o c, same).s
                           ELSE ColUse(prev, UsePfx \o c, same).s

\* ----------------------------------------------------------------- C12
\* C12: after col:use, col:new, col:create or col:select columnMatches is
\* absent, and columnMatches is present only while the column choice is
\* still pending.
ColumnMatchesCleared ==
  /\ (\E pf \in ChoicePrefixes : ColumnChosenBy(pf))
       => session.columnMatches = Undef
  /\ session.columnMatches # Undef => session.state = "awaiting_column_choice"

\* ----------------------------------------------------------------- C13
ColumnPrompts ==
  { i \in 1..Len(effects) :
      effects[i].op = "render" /\ effects[i].tag = "column_choice" }

IsSelectRow(kb, cands) ==
  \A j \in 1..Len(cands) :
    /\ kb[j].num = j
    /\ kb[j].data = COLUMN \o SelectPfx \o cands[j].column

\* C13: for N candidates the column keyboard offers N + 1 choices when N is
\* zero or more than one (the candidates, numbered 1..N in the order
\* supplied, each carrying col:select:<column>, and a cancel choice), and 2
\* choices (use, create next) for a single candidate.
ChoicesAreCandidatesPlusCancel ==
  \A i \in ColumnPrompts :
    LET cands == effects[i].rows
        kb == effects[i].kb
        N == Len(cands)
    IN IF N = 1
       THEN /\ Len(kb) = 2
            /\ kb[1].data = COLUMN \o UsePfx \o cands[1].column
            /\ StartsWith(kb[2].data, COLUMN \o NewPfx)
       ELSE /\ Len(kb) = N + 1
            /\ IsSelectRow(kb, cands)
            /\ kb[N + 1].data = COLUMN \o CancelLit

\* C13 as amended: no candidate: 2 choices, create and cancel; one
\* candidate: 2 choices, use it and create the next; N > 1 candidates:
\* N choices, numbered 1..N in the order supplied, each carrying
\* col:select:<column>, and no cancel choice.
ChoicesPerCandidateCount ==
  \A i \in ColumnPrompts :
    LET cands == effects[i].rows
        kb == effects[i].kb
        N == Len(cands)
    IN IF N = 0
       THEN /\ Len(kb) = 2
            /\ StartsWith(kb[1].data, COLUMN \o CreatePfx)
            /\ kb[2].data = COLUMN \o CancelLit
       ELSE IF N = 1
       THEN /\ Len(kb) = 2
            /\ kb[1].data = COLUMN \o UsePfx \o cands[1].column
            /\ StartsWith(kb[2].data, COLUMN \o NewPfx)
       ELSE /\ Len(kb) = N
            /\ IsSelectRow(kb, cands)

ChoicesPerCandidateCountWitness ==
  \E i \in ColumnPrompts :
    /\ Len(effects[i].rows) = 2
    /\ effects[i].rows[1].column = << "B" >>
    /\ Len(effects[i].kb) = 2
    /\ effects[i].kb[2].data = COLUMN \o SelectPfx \o << "A" >>
    /\ session.columnMatches = Some(effects[i].rows)

\* ----------------------------------------------------------------- C14
Prefixes == { YES_NO, COLUMN, POLL_INTENT, POLL_OPTION }

\* C14: a token made of a prefix and a payload is taken by exactly one
\* handler, the one of that prefix, and the data that handler gets by
\* stripping the prefix is the payload unchanged, also when the payload
\* holds ':' or the literal of another prefix.
RoutedByPrefix ==
  token # NoToken =>
    LET matching == { P \in Prefixes : StartsWith(token, P) }
    IN /\ Cardinality(matching) = 1
       /\ routed.prefix \in matching
       /\ routed.prefix \o routed.data = token

RoutedByPrefixWitness ==
  /\ token = COLUMN \o YES_NO \o PlayercountNo
  /\ routed.prefix = COLUMN
  /\ routed.data = YES_NO \o PlayercountNo
  /\ prev.state = "awaiting_column_choice"
  /\ session = prev

\* ----------------------------------------------------------------- C15
FailedCall(op) == \E i \in 1..Len(effects) :
                    effects[i].op = op /\ ~effects[i].ok

ErrorShown == \E i \in 1..Len(effects) :
                /\ effects[i].op = "render"
                /\ effects[i].tag \in
                     { "error: writing player count or checking overrides",
                       "error: updating sheet" }

\* C15: when the metadata write of yn:playercount:yes or the commit of
\* yn:override:yes/no fails, the failure is shown and the session is what it
\* was before the action: not reset, state not advanced, no playerCount that
\* was never persisted.
FailedWriteLeavesSession ==
  (\/ Pressed(YES_NO, PlayercountYes) /\ FailedCall("writeColumnMetadata")
   \/ Pressed(YES_NO, OverrideYes) /\ FailedCall("commitAttendance")
   \/ Pressed(YES_NO, OverrideNo) /\ FailedCall("commitAttendance"))
    => ErrorShown /\ session = prev

\* ----------------------------------------------------------------- C16
\* C16: pi:view with a successful fetch renders the voters of every option,
\* writes nothing to the sheet and resets the whole session, the reset
\* coming after the render; pi:view never makes the state
\* awaiting_poll_option_selection.
ViewRendersThenResets ==
  Pressed(POLL_INTENT, ViewLit) =>
    /\ (session.state = "awaiting_poll_option_selection"
          => prev.state = "awaiting_poll_option_selection")
    /\ FetchedPoll =>
         LET shown == Calls(effects, "render")
         IN /\ session = InitSession
            /\ Writes(effects) = << >>
            /\ Len(shown) = 1
            /\ shown[1].tag = "poll view"
            /\ shown[1].rows =
                 [ i \in 1..Len(FetchedData.options) |->
                     IF (i - 1) \in DOMAIN FetchedData.votes
                     THEN FetchedData.votes[i - 1] ELSE << >> ]
            /\ \E i, j \in 1..Len(effects) :
                 /\ i < j
                 /\ effects[i] = shown[1]
                 /\ effects[j] = Reset
            /\ Len(Calls(effects, "resetSession")) = 1

ViewRendersThenResetsWitness ==
  /\ Pressed(POLL_INTENT, ViewLit)
  /\ FetchedPoll
  /\ prev.state = "awaiting_override_choice"
  /\ prev.targetColumn # Undef
  /\ prev.nicknameRowsEntries # Undef
  /\ session = InitSession
  /\ effects[Len(effects)] = Reset
  /\ effects[Len(effects) - 1].rows[2] = << "bob", "alice" >>

\* ----------------------------------------------------------------- C17
\* C17: whatever the token (accepted, rejected or unrecognized, of any of the
\* four prefixes), the acknowledgement is issued exactly once and is the
\* first call of the run: before any fetch, render, write or reset.
AckFirstAndOnce ==
  token # NoToken =>
    /\ effects # << >>
    /\ effects[1] = Ack
    /\ Len(Calls(effects, "ack")) = 1
    /\ (session # prev => Len(effects) > 1)

AckFirstAndOnceWitness ==
  /\ Pressed(YES_NO, PlayercountYes)
  /\ effects[1] = Ack
  /\ Len(Writes(effects)) = 2
  /\ session = InitSession
  /\ prev.state = "awaiting_player_count"

\* ----------------------------------------------------------------- C18
Positions(op) == { i \in 1..Len(effects) : effects[i].op = op }

OptionKeyboardShown == \E i \in 1..Len(effects) :
                         /\ effects[i].op = "render"
                         /\ effects[i].tag = "which option"

\* C19: on pi:update the state becomes awaiting_poll_option_selection only
\* when the poll data was fetched; when the fetch fails or there is no poll
\* to fetch, the session stays as it was, the option keyboard is not shown
\* and nothing is written to the sheet.
UpdateNeedsFetchedPoll ==
  Pressed(POLL_INTENT, UpdateLit) =>
    /\ Writes(effects) = << >>
    /\ FetchedPoll =>
         /\ session = [ prev EXCEPT !.state = "awaiting_poll_option_selection" ]
         /\ \E i, j \in 1..Len(effects) :
              /\ i < j
              /\ effects[i].op = "fetchPollData"
              /\ effects[j].op = "render" /\ effects[j].tag = "which option"
    /\ ~FetchedPoll =>
         /\ session = prev
         /\ ~OptionKeyboardShown

UpdateNeedsFetchedPollWitness ==
  /\ Pressed(POLL_INTENT, UpdateLit)
  /\ ~FetchedPoll
  /\ Positions("fetchPollData") # {}
  /\ prev.pollId # Undef
  /\ prev.state = "idle"
  /\ session.state = "idle"

\* ----------------------------------------------------------------- C20
\* C20: yn:playercount:no makes the state awaiting_player_count from any
\* state, writes nothing to the sheet and leaves every other session field
\* as it was.
PlayerCountNoOnlySetsState ==
  Pressed(YES_NO, PlayercountNo) =>
    /\ session = [ prev EXCEPT !.state = "awaiting_player_count" ]
    /\ Writes(effects) = << >>
    /\ Calls(effects, "resetSession") = << >>

PlayerCountNoOnlySetsStateWitness ==
  /\ Pressed(YES_NO, PlayercountNo)
  /\ prev.state = "awaiting_override_choice"
  /\ prev.playerCount = Some(2)
  /\ prev.existingValuesEntries # Undef
  /\ prev.targetColumn # Undef
  /\ session.state = "awaiting_player_count"
  /\ session.playerCount = prev.playerCount
  /\ session.existingValuesEntries = prev.existingValuesEntries

====
